---- MODULE Spec2Model ----
(***************************************************************************)
(* Model of Portfolio_Risk_Analysis.py: the PortfolioRiskAnalysis class,   *)
(* its data pipeline (download_data -> calculate_returns ->                *)
(* assign_weights) and its risk metrics (var_hist, var_para, cvar,         *)
(* stress_testing).                                                        *)
(*                                                                         *)
(* Numbers.  The program computes in IEEE doubles.  The model keeps the    *)
(* special values (nan, +inf, -inf) and their arithmetic, and represents   *)
(* every finite value as an exact normalised fraction num/den; rounding    *)
(* of finite values is not modelled.  Prices are powers of two (or 0), so  *)
(* that a log-return is an exact integer multiple of ln 2; returns and     *)
(* the metrics derived from them are expressed in that unit.  Weights and  *)
(* stress shocks are integers in an arbitrary fixed unit.  A confidence    *)
(* level is k / ConfDen.                                                   *)
(*                                                                         *)
(* Libraries.  yf.download(list)['Close'] is a frame with one column per   *)
(* requested ticker, in the order of valid_tickers, on one date index; the *)
(* provider gives the probes and the batch fetch of one download_data call *)
(* the same answer, and may change its answer between two calls.           *)
(* DataFrame.dot(ndarray) raises ValueError when the number of columns     *)
(* differs from the number of weights.  np.percentile raises ValueError    *)
(* for a rank outside [0, 100] and interpolates linearly otherwise.        *)
(* pandas mean() and std() skip nan, std() with ddof = 1.                  *)
(***************************************************************************)
EXTENDS Integers, Sequences, FiniteSets

VARIABLES
    tickers,    \* self.tickers
    weights,    \* self.weights
    provider,   \* what the data provider (yfinance) answers right now
    pc,         \* "menu": a choice is awaited; "cvar": cvar is between its two
                \* fetches; "done": a call has returned, its result is shown
    op,         \* the method called last
    conf,       \* its confidence_level argument (k of k / ConfDen)
    scenario,   \* its stress_scenario argument
    series,     \* cvar: the local portfolio_returns
    cutSeries,  \* cvar: the portfolio returns var_hist computed var_cutoff from
    cutoff,     \* cvar: the local var_cutoff
    result,     \* what the call returned or raised
    fetches     \* download_data calls made on this instance

vars == <<tickers, weights, provider, pc, op, conf, scenario, series, cutSeries, cutoff, result, fetches>>

----------------------------------------------------------------------------
(* Bounds of the model *)

\* rows (dates) the data provider holds for a portfolio of several tickers,
\* and for a portfolio of a single ticker, at most
MaxRows == 2
MaxRowsSingle == 4

\* no call is started once the instance has fetched the price matrix this
\* many times
MaxFetches == 1

\* the tickers the user may enter: a prefix of this list (symbols are opaque,
\* so that another choice of names or order explores nothing new)
AllTickers == <<"A", "B">>

\* closing prices the provider may report (0 stands for a non-positive price)
PriceVals == {0, 1, 2}

\* weights (no two of a portfolio equal) and stress shocks the user may enter
WeightVals == {1, 2}
ShockVals == {-1, 2}

\* confidence_level = k / ConfDen
ConfDen == 20

\* -0.1, 0, 0.05, 0.5, 0.95, 1, 1.5
ConfLevels == {-2, 0, 1, 10, 19, 20, 30}

----------------------------------------------------------------------------
(* IEEE-style extended numbers: finite fractions, nan, +inf, -inf *)

Abs(n) == IF n < 0 THEN -n ELSE n

RECURSIVE GCD(_, _)
GCD(a, b) == IF b = 0 THEN a ELSE GCD(b, a % b)

Fin(n, d) ==
    LET g == GCD(Abs(n), Abs(d))
        s == IF d < 0 THEN -1 ELSE 1
    IN  [kind |-> "fin", num |-> s * (n \div g), den |-> s * (d \div g)]

NaN == [kind |-> "nan", num |-> 0, den |-> 1]
PInf == [kind |-> "pinf", num |-> 0, den |-> 1]
NInf == [kind |-> "ninf", num |-> 0, den |-> 1]
Zero == Fin(0, 1)

IsFin(x) == x.kind = "fin"
IsNaN(x) == x.kind = "nan"

Sign(x) ==
    CASE x.kind = "pinf" -> 1
      [] x.kind = "ninf" -> -1
      [] x.kind = "fin" -> (IF x.num > 0 THEN 1 ELSE IF x.num < 0 THEN -1 ELSE 0)
      [] OTHER -> 0

Neg(x) ==
    CASE x.kind = "pinf" -> NInf
      [] x.kind = "ninf" -> PInf
      [] x.kind = "fin" -> Fin(-x.num, x.den)
      [] OTHER -> NaN

Add(x, y) ==
    IF IsNaN(x) \/ IsNaN(y) THEN NaN
    ELSE IF IsFin(x) /\ IsFin(y) THEN Fin(x.num * y.den + y.num * x.den, x.den * y.den)
    ELSE IF IsFin(x) THEN y
    ELSE IF IsFin(y) THEN x
    ELSE IF x.kind = y.kind THEN x
    ELSE NaN

Sub(x, y) == Add(x, Neg(y))

Mul(x, y) ==
    IF IsNaN(x) \/ IsNaN(y) THEN NaN
    ELSE IF IsFin(x) /\ IsFin(y) THEN Fin(x.num * y.num, x.den * y.den)
    ELSE IF Sign(x) * Sign(y) = 0 THEN NaN
    ELSE IF Sign(x) * Sign(y) > 0 THEN PInf
    ELSE NInf

\* x <= y as the floating-point comparison: false when either side is nan
Le(x, y) ==
    IF IsNaN(x) \/ IsNaN(y) THEN FALSE
    ELSE IF IsFin(x) /\ IsFin(y) THEN x.num * y.den <= y.num * x.den
    ELSE IF x.kind = "ninf" \/ y.kind = "pinf" THEN TRUE
    ELSE FALSE

RECURSIVE SumSeq(_)
SumSeq(s) == IF s = <<>> THEN Zero ELSE Add(Head(s), SumSeq(Tail(s)))

RECURSIVE Insert(_, _)
Insert(x, s) ==
    IF s = <<>> THEN <<x>>
    ELSE IF Le(x, Head(s)) THEN <<x>> \o s
    ELSE <<Head(s)>> \o Insert(x, Tail(s))

RECURSIVE Sorted(_)
Sorted(s) == IF s = <<>> THEN <<>> ELSE Insert(Head(s), Sorted(Tail(s)))

\* the integer square root, by bisection: lo * lo <= n < hi * hi
RECURSIVE ISqrtIn(_, _, _)
ISqrtIn(n, lo, hi) ==
    IF hi - lo <= 1 THEN lo
    ELSE LET mid == (lo + hi) \div 2
         IN  IF mid * mid <= n THEN ISqrtIn(n, mid, hi) ELSE ISqrtIn(n, lo, mid)

ISqrt(n) == ISqrtIn(n, 0, IF n < 46340 THEN n + 1 ELSE 46340)

Ok(v) == [ok |-> TRUE, err |-> "", val |-> v]
Err(e) == [ok |-> FALSE, err |-> e, val |-> <<>>]

----------------------------------------------------------------------------
(* The data provider, yf.download: per requested symbol either an          *)
(* exception, or a frame of closing prices (empty when it has no data).    *)
(* All symbols with data share one date index.                             *)

Range(s) == {s[i] : i \in DOMAIN s}

Raises == [raises |-> TRUE, close |-> <<>>]
Frame(c) == [raises |-> FALSE, close |-> c]

RowsBound(T) == IF Len(T) = 1 THEN MaxRowsSingle ELSE MaxRows

Providers(T) ==
    UNION {[Range(T) -> {Raises, Frame(<<>>)} \cup {Frame(c) : c \in [1..n -> PriceVals]}] :
           n \in 1..RowsBound(T)}

\* the date index shared by the symbols that have data
Rows(p) ==
    LET lens == {Len(p[t].close) : t \in DOMAIN p}
    IN  CHOOSE n \in lens : \A m \in lens : m <= n

----------------------------------------------------------------------------
(* download_data, lines 17-37 *)

\* lines 24-31: the symbol is kept iff its fetch neither raises nor is empty
IsValid(p, t) == ~p[t].raises /\ p[t].close # <<>>

valid_tickers(T, p) ==
    LET Test(t) == IsValid(p, t)
    IN  SelectSeq(T, Test)

\* download_data, had it let one symbol's failure fail the batch
download_data_strict(T, p) ==
    LET v == valid_tickers(T, p)
    IN  IF v # T THEN Err("ValueError: No valid tickers found")
        ELSE Ok([cols |-> v,
                 rows |-> [i \in 1..Len(p[v[1]].close) |->
                              [j \in 1..Len(v) |-> p[v[j]].close[i]]]])

\* the frame of closing prices: one column per valid ticker, one row per date
download_data(T, p) ==
    LET v == valid_tickers(T, p)
    IN  IF v = <<>> THEN Err("ValueError: No valid tickers found")
        ELSE Ok([cols |-> v,
                 rows |-> [i \in 1..Len(p[v[1]].close) |->
                              [j \in 1..Len(v) |-> p[v[j]].close[i]]]])

----------------------------------------------------------------------------
(* calculate_returns, lines 39-45 *)

RECURSIVE Log2(_)
Log2(n) == IF n <= 1 THEN 0 ELSE 1 + Log2(n \div 2)

\* np.log(p / q) on doubles, in units of ln 2
LogRatio(p, q) ==
    IF q = 0 THEN (IF p > 0 THEN PInf ELSE NaN)
    ELSE IF p = 0 THEN NInf
    ELSE IF (p < 0) # (q < 0) THEN NaN
    ELSE Fin(Log2(Abs(p)) - Log2(Abs(q)), 1)

\* row i of np.log(data / data.shift(1)): the first row has no previous price
LogRow(rows, i) ==
    [j \in DOMAIN rows[i] |-> IF i = 1 THEN NaN ELSE LogRatio(rows[i][j], rows[i - 1][j])]

HasNaN(row) == \E j \in DOMAIN row : IsNaN(row[j])

\* dropna(): the rows with no nan, in order
DropNa(rows) ==
    LET Keep(r) == ~HasNaN(r)
    IN  SelectSeq(rows, Keep)

log_returns(d) ==
    [cols |-> d.cols, rows |-> DropNa([i \in DOMAIN d.rows |-> LogRow(d.rows, i)])]

calculate_returns(T, p) ==
    LET d == download_data(T, p)
    IN  IF ~d.ok THEN d ELSE Ok(log_returns(d.val))

----------------------------------------------------------------------------
(* assign_weights, lines 47-53: DataFrame.dot(ndarray) *)

Dot(row, w) == SumSeq([j \in DOMAIN row |-> Mul(row[j], Fin(w[j], 1))])

\* the dot product, had it paired as many columns and weights as there are of both
DotNoShapeCheck(r, w) ==
    Ok([t \in DOMAIN r.rows |->
           SumSeq([j \in 1..(IF Len(w) < Len(r.cols) THEN Len(w) ELSE Len(r.cols)) |->
                      Mul(r.rows[t][j], Fin(w[j], 1))])])

FrameDot(r, w) ==
    IF Len(r.cols) # Len(w) THEN Err("ValueError: Dot product shape mismatch")
    ELSE Ok([t \in DOMAIN r.rows |-> Dot(r.rows[t], w)])

assign_weights(T, w, p) ==
    LET r == calculate_returns(T, p)
    IN  IF ~r.ok THEN r ELSE FrameDot(r.val, w)

----------------------------------------------------------------------------
(* var_hist, lines 66-70: np.percentile(series, (1 - confidence_level) * 100) *)

\* the rank, had it been confidence_level itself
RankOfConf(k) == k

\* (1 - confidence_level), in units of 1 / ConfDen
Rank(k) == ConfDen - k

Min(a, b) == IF a <= b THEN a ELSE b

\* numpy's linear interpolation between two neighbours, 0 <= t < 1
Lerp(a, b, t) ==
    LET diff == Sub(b, a)
    IN  IF Le(Fin(1, 2), t) THEN Sub(b, Mul(diff, Sub(Fin(1, 1), t)))
        ELSE Add(a, Mul(diff, t))

\* np.percentile(a, 100 * r / ConfDen), method "linear".  The rank is
\* validated first.  On an empty array the numpy releases differ: the older
\* ones return nan, the newer ones raise IndexError; emptyNaN says which.
percentile(a, r, emptyNaN) ==
    IF r < 0 \/ r > ConfDen THEN Err("ValueError: Percentiles must be in the range [0, 100]")
    ELSE IF a = <<>> THEN (IF emptyNaN THEN Ok(NaN) ELSE Err("IndexError"))
    ELSE IF \E i \in DOMAIN a : IsNaN(a[i]) THEN Ok(NaN)
    ELSE LET s == Sorted(a)
             pos == r * (Len(a) - 1)
             prev == pos \div ConfDen
             next == Min(prev + 1, Len(a) - 1)
         IN  Ok(Lerp(s[prev + 1], s[next + 1], Fin(pos % ConfDen, ConfDen)))

\* s is what self.assign_weights() returned or raised
var_hist(s, k, emptyNaN) == IF ~s.ok THEN s ELSE percentile(s.val, Rank(k), emptyNaN)

----------------------------------------------------------------------------
(* var_para, lines 55-64 *)

\* pandas mean(): nan entries are skipped; the mean of nothing is nan
Mean(xs) == IF xs = <<>> THEN NaN ELSE Mul(SumSeq(xs), Fin(1, Len(xs)))

SkipNaN(xs) ==
    LET Keep(x) == ~IsNaN(x)
    IN  SelectSeq(xs, Keep)

\* pandas std(), ddof = 1, to three decimals: nan for fewer than two
\* observations and for a series with an infinite entry
Std(xs) ==
    IF Len(xs) < 2 \/ (\E i \in DOMAIN xs : ~IsFin(xs[i])) THEN NaN
    ELSE LET m == Mean(xs)
             dev == [i \in DOMAIN xs |-> Mul(Sub(xs[i], m), Sub(xs[i], m))]
             v == Mul(SumSeq(dev), Fin(1, Len(xs) - 1))
         IN  Fin(ISqrt((v.num * 1000000) \div v.den), 1000)

\* scipy.stats.norm.ppf(k / ConfDen), to three decimals
Ppf(k) ==
    CASE k < 0 \/ k > ConfDen -> NaN
      [] k = 0 -> NInf
      [] k = ConfDen -> PInf
      [] k = 1 -> Fin(-1645, 1000)
      [] k = 2 -> Fin(-1282, 1000)
      [] k = 10 -> Zero
      [] k = 18 -> Fin(1282, 1000)
      [] k = 19 -> Fin(1645, 1000)

para(xs, k) ==
    LET ys == SkipNaN(xs)
    IN  Sub(Mean(ys), Mul(Std(ys), Ppf(k)))

\* s is what self.assign_weights() returned or raised
var_para(s, k) == IF ~s.ok THEN s ELSE Ok(para(s.val, k))

----------------------------------------------------------------------------
(* cvar, lines 72-79 *)

\* the selection, had it taken the observations >= var_cutoff
TailOfAbove(xs, c) ==
    LET Keep(x) == Le(c, x)
    IN  SelectSeq(xs, Keep)

\* portfolio_returns[portfolio_returns <= var_cutoff]
TailOf(xs, c) ==
    LET Keep(x) == Le(x, c)
    IN  SelectSeq(xs, Keep)

tail_mean(xs, c) == Mean(TailOf(xs, c))

----------------------------------------------------------------------------
(* stress_testing, lines 81-87: np.sum(self.weights * stress_scenario) *)

stress_testing(w, sc) ==
    IF Len(w) # Len(sc) /\ Len(w) # 1 /\ Len(sc) # 1
    THEN Err("ValueError: operands could not be broadcast together")
    ELSE LET n == IF Len(w) = 1 THEN Len(sc) ELSE Len(w)
             W(i) == IF Len(w) = 1 THEN w[1] ELSE w[i]
             S(i) == IF Len(sc) = 1 THEN sc[1] ELSE sc[i]
         IN  Ok(SumSeq([i \in 1..n |-> Fin(W(i) * S(i), 1)]))

----------------------------------------------------------------------------
(* The program: one instance, built from the user's input (lines 155-165), *)
(* then any sequence of calls of its methods.                              *)

\* line 161: at least one ticker; line 162: at least one weight, and the
\* program never checks their number against the number of tickers
TickerLists == {SubSeq(AllTickers, 1, n) : n \in 1..Len(AllTickers)}
WeightLists ==
    {w \in UNION {[1..n -> WeightVals] : n \in 1..Len(AllTickers)} :
        \A i, j \in DOMAIN w : w[i] = w[j] => i = j}

\* line 135: at least one shock, and their number is not checked either
Scenarios == UNION {[1..n -> ShockVals] : n \in 1..Len(AllTickers)}

None == Ok(<<>>)

Init ==
    /\ tickers \in TickerLists
    /\ weights \in WeightLists
    /\ provider \in Providers(tickers)
    /\ pc = "menu"
    /\ op = "init"
    /\ conf = 0
    /\ scenario = <<>>
    /\ series = <<>>
    /\ cutSeries = <<>>
    /\ cutoff = NaN
    /\ result = None
    /\ fetches = 0

\* a call that fetches the price matrix once and keeps no locals
Call(name, k, res) ==
    /\ pc = "menu"
    /\ fetches < MaxFetches
    /\ pc' = "done"
    /\ op' = name
    /\ conf' = k
    /\ result' = res
    /\ fetches' = fetches + 1
    /\ scenario' = <<>>
    /\ series' = <<>>
    /\ cutSeries' = <<>>
    /\ cutoff' = NaN
    /\ UNCHANGED <<tickers, weights, provider>>

DownloadData == Call("download_data", 0, download_data(tickers, provider))

CalculateReturns == Call("calculate_returns", 0, calculate_returns(tickers, provider))

AssignWeights == Call("assign_weights", 0, assign_weights(tickers, weights, provider))

VarHist ==
    LET s == assign_weights(tickers, weights, provider)
    IN  \E k \in ConfLevels, emptyNaN \in BOOLEAN :
            Call("var_hist", k, var_hist(s, k, emptyNaN))

VarPara ==
    LET s == assign_weights(tickers, weights, provider)
    IN  \E k \in ConfLevels :
            Call("var_para", k, var_para(s, k))

\* cvar, line 77: portfolio_returns = self.assign_weights()
CvarBegin ==
    LET s == assign_weights(tickers, weights, provider)
    IN  \E k \in ConfLevels :
            /\ pc = "menu"
            /\ fetches < MaxFetches
            /\ op' = "cvar"
            /\ conf' = k
            /\ fetches' = fetches + 1
            /\ scenario' = <<>>
            /\ cutSeries' = <<>>
            /\ cutoff' = NaN
            /\ IF s.ok
               THEN /\ pc' = "cvar"
                    /\ series' = s.val
                    /\ result' = None
               ELSE /\ pc' = "done"
                    /\ series' = <<>>
                    /\ result' = s
            /\ UNCHANGED <<tickers, weights, provider>>

\* cvar, lines 78-79: var_cutoff = self.var_hist(confidence_level), then the
\* mean of the observations of portfolio_returns that are <= var_cutoff
CvarEnd ==
    LET s == assign_weights(tickers, weights, provider)
    IN  \E emptyNaN \in BOOLEAN :
        LET c == var_hist(s, conf, emptyNaN)
        IN  /\ pc = "cvar"
            /\ pc' = "done"
            /\ fetches' = fetches + 1
            /\ cutSeries' = s.val
            /\ IF c.ok
               THEN /\ cutoff' = c.val
                    /\ result' = Ok(tail_mean(series, c.val))
               ELSE /\ cutoff' = NaN
                    /\ result' = c
            /\ UNCHANGED <<tickers, weights, provider, op, conf, scenario, series>>

StressTesting ==
    \E sc \in Scenarios :
        /\ pc = "menu"
        /\ pc' = "done"
        /\ op' = "stress_testing"
        /\ scenario' = sc
        /\ result' = stress_testing(weights, sc)
        /\ conf' = 0
        /\ series' = <<>>
        /\ cutSeries' = <<>>
        /\ cutoff' = NaN
        /\ UNCHANGED <<tickers, weights, provider, fetches>>

\* The provider's answer changes between two fetches: it publishes the
\* close of one more date, or a symbol's fetch starts to fail.
NextAnswers(T, p) ==
    LET has == {t \in DOMAIN p : IsValid(p, t)}
    IN  {[t \in DOMAIN p |-> IF t \in has THEN Frame(Append(p[t].close, new[t])) ELSE p[t]] :
            new \in IF has # {} /\ Rows(p) < RowsBound(T) THEN [has -> PriceVals] ELSE {}}
        \cup {[p EXCEPT ![t] = Raises] : t \in has}

ProviderChange ==
    /\ pc \in {"menu", "cvar"}
    /\ provider' \in NextAnswers(tickers, provider)
    /\ UNCHANGED <<tickers, weights, pc, op, conf, scenario, series, cutSeries, cutoff, result, fetches>>

\* menu, lines 146-147: the result was printed, the next choice is awaited
Menu ==
    /\ pc = "done"
    /\ pc' = "menu"
    /\ op' = "init"
    /\ conf' = 0
    /\ scenario' = <<>>
    /\ series' = <<>>
    /\ cutSeries' = <<>>
    /\ cutoff' = NaN
    /\ result' = None
    /\ UNCHANGED <<tickers, weights, provider, fetches>>

Next ==
    \/ DownloadData
    \/ CalculateReturns
    \/ AssignWeights
    \/ VarHist
    \/ VarPara
    \/ CvarBegin
    \/ CvarEnd
    \/ StressTesting
    \/ ProviderChange
    \/ Menu

Spec == Init /\ [][Next]_vars

----------------------------------------------------------------------------
(* Properties *)

Done(name) == pc = "done" /\ op = name

\* the requested symbols whose fetch yields data
Loaded == {t \in Range(tickers) : ~provider[t].raises /\ Len(provider[t].close) > 0}

\* what self.assign_weights() gives on the provider's present answer
Portfolio == assign_weights(tickers, weights, provider)

AllFin(xs) == \A i \in DOMAIN xs : IsFin(xs[i])

InsideUnit(k) == 0 < k /\ k < ConfDen

\* the sum over assets a, from a on, of w[a] * row[a]
RECURSIVE WSum(_, _, _)
WSum(row, w, a) ==
    IF a > Len(row) THEN Zero ELSE Add(Mul(Fin(w[a], 1), row[a]), WSum(row, w, a + 1))

\* C1: download_data omits every symbol whose fetch raises or is empty, returns
\* the price matrix of exactly the symbols that yielded data, and fails if and
\* only if no requested symbol yields data.
C1_DownloadTolerant ==
    Done("download_data") =>
        /\ result.ok <=> Loaded # {}
        /\ result.ok => Range(result.val.cols) = Loaded

\* a batch in which one symbol failed and the other was returned
C1_Witness ==
    /\ Done("download_data")
    /\ result.ok
    /\ Loaded # Range(tickers)
    /\ \E t \in Range(tickers) : provider[t].raises

\* C2: whenever the number of weights differs from the number of loaded
\* symbols, assign_weights fails (with the shape mismatch, when a symbol was
\* loaded), and so do var_hist, var_para and cvar; when the numbers are equal
\* assign_weights returns, per date t, the sum over assets of
\* weight[a] * return[a][t].
C2_WeightsMatchSymbols ==
    /\ (pc = "done" /\ op \in {"assign_weights", "var_hist", "var_para", "cvar"}
            /\ Len(weights) # Cardinality(Loaded)) =>
        /\ ~result.ok
        /\ Loaded # {} => result.err = "ValueError: Dot product shape mismatch"
    /\ (Done("assign_weights") /\ Len(weights) = Cardinality(Loaded)) =>
        LET r == calculate_returns(tickers, provider).val.rows
        IN  /\ result.ok
            /\ Len(result.val) = Len(r)
            /\ \A t \in DOMAIN r : result.val[t] = WSum(r[t], weights, 1)

\* as many weights as tickers, but the loader skipped one of the tickers
C2_Witness ==
    /\ Done("assign_weights")
    /\ Len(weights) = Len(tickers)
    /\ Loaded # {}
    /\ Loaded # Range(tickers)
    /\ ~result.ok

\* C3: stress_testing fails for every scenario whose length differs from the
\* number of weights, and returns a number, the sum of weight[a] * scenario[a],
\* only when the lengths are equal.
C3_StressLengthsChecked ==
    Done("stress_testing") =>
        /\ result.ok <=> Len(scenario) = Len(weights)
        /\ result.ok => result.val = WSum([a \in DOMAIN scenario |-> Fin(scenario[a], 1)], weights, 1)

\* C4: on a non-empty series of reals var_hist fails for every confidence
\* level not strictly between 0 and 1, and returns a value for every other one.
C4_ConfidenceChecked ==
    (Done("var_hist") /\ Portfolio.ok /\ Len(Portfolio.val) > 0 /\ AllFin(Portfolio.val)) =>
        (result.ok <=> InsideUnit(conf))

\* C5: calculate_returns fails when fewer than 2 price rows are loaded or a
\* price is <= 0; otherwise it returns, per asset, one return less than there
\* are prices, entry t being ln(price[t + 1] / price[t]).
C5_ReturnsChecked ==
    (Done("calculate_returns") /\ Loaded # {}) =>
        LET d == download_data(tickers, provider).val.rows
            bad == Len(d) < 2 \/ \E i \in DOMAIN d : \E a \in DOMAIN d[i] : d[i][a] <= 0
        IN  /\ bad => ~result.ok
            /\ ~bad =>
                /\ result.ok
                /\ Len(result.val.rows) = Len(d) - 1
                /\ \A t \in DOMAIN result.val.rows : \A a \in DOMAIN d[t] :
                       result.val.rows[t][a] = Fin(Log2(d[t + 1][a]) - Log2(d[t][a]), 1)

\* C6: the price matrix is fetched once per instance, and the cutoff of cvar
\* and the series cvar selects its tail from come from the same snapshot.
C6_FetchedOnce ==
    /\ fetches <= 1
    /\ (Done("cvar") /\ result.ok) => cutSeries = series

\* C7: for a non-empty series of reals and a confidence level in (0, 1), what
\* cvar returns is a number that is <= the historical VaR cutoff of that series.
C7_CvarBelowVar ==
    (Done("cvar") /\ result.ok /\ Len(series) > 0 /\ AllFin(series)
        /\ cutSeries = series /\ InsideUnit(conf)) =>
        /\ IsFin(result.val)
        /\ Le(result.val, cutoff)

\* a tail of two or more observations whose mean is below the cutoff
C7_Witness ==
    /\ Done("cvar")
    /\ result.ok
    /\ AllFin(series)
    /\ cutSeries = series
    /\ InsideUnit(conf)
    /\ Len(TailOf(series, cutoff)) >= 2
    /\ Len(TailOf(series, cutoff)) < Len(series)
    /\ IsFin(result.val)
    /\ ~Le(cutoff, result.val)

\* C8: cvar returns no value when no observation of its (non-empty, real)
\* series is <= the cutoff it computed (from real returns).
C8_EmptyTailFails ==
    (Done("cvar") /\ Len(series) > 0 /\ AllFin(series) /\ AllFin(cutSeries)
        /\ TailOf(series, cutoff) = <<>>) =>
        ~result.ok

\* the tickers all have data, at least two rows, every price the same
EqualPrices ==
    \A t \in Range(tickers) :
        /\ ~provider[t].raises
        /\ Len(provider[t].close) >= 2
        /\ \A i \in DOMAIN provider[t].close :
               provider[t].close[i] > 0 /\ provider[t].close[i] = provider[t].close[1]

\* C9: on prices that are all equal (two rows or more) var_hist, var_para and
\* cvar each return exactly 0 for every confidence level in (0, 1).
C9_EqualPricesGiveZero ==
    (/\ pc = "done"
     /\ op \in {"var_hist", "var_para", "cvar"}
     /\ EqualPrices
     /\ Len(weights) = Len(tickers)
     /\ InsideUnit(conf)
     /\ op = "cvar" => (Len(series) > 0 /\ \A i \in DOMAIN series : series[i] = Zero)) =>
        /\ result.ok
        /\ result.val = Zero

\* C10: on a non-empty series of reals, var_hist at a confidence level in
\* (0, 1) is the linear interpolation of the sorted series at the position
\* (1 - c) * (n - 1), and no level above it in (0, 1) gives a greater value.
C10_VarHistMonotone ==
    (Done("var_hist") /\ Portfolio.ok /\ Len(Portfolio.val) > 0 /\ AllFin(Portfolio.val)
        /\ InsideUnit(conf)) =>
        LET s == Sorted(Portfolio.val)
            pos == (ConfDen - conf) * (Len(s) - 1)
            lo == (pos \div ConfDen) + 1
            hi == Min(lo + 1, Len(s))
            fr == pos % ConfDen
        IN  /\ result.ok
            /\ Mul(result.val, Fin(ConfDen, 1)) =
                   Add(Mul(s[lo], Fin(ConfDen - fr, 1)), Mul(s[hi], Fin(fr, 1)))
            /\ \A k \in ConfLevels :
                   (conf <= k /\ InsideUnit(k)) =>
                       Le(var_hist(Portfolio, k, TRUE).val, result.val)

\* three or more observations, and a higher level that gives a smaller value
C10_Witness ==
    /\ Done("var_hist")
    /\ Portfolio.ok
    /\ Len(Portfolio.val) >= 3
    /\ AllFin(Portfolio.val)
    /\ InsideUnit(conf)
    /\ result.ok
    /\ \E k \in ConfLevels :
           /\ conf < k
           /\ InsideUnit(k)
           /\ ~Le(result.val, var_hist(Portfolio, k, TRUE).val)

====
